---- MODULE Spec2Model ----
(***************************************************************************)
(* Activity simulator (src/coder.py): the typing engine human_type, the    *)
(* session loop simulate and the entry point main, as a state machine.     *)
(* Python floats are IEEE-754 doubles; the timing derivation is modelled   *)
(* with correctly rounded double division on 53-bit significands.          *)
(***************************************************************************)
EXTENDS Integers, Sequences, FiniteSets

VARIABLES
    pc,            \* position of the single thread in main / simulate / human_type
    wpm,           \* args.wpm (argparse type=int)
    typo_rate,     \* args.typo_rate, as a numerator over RateDen
    max_interval,  \* args.max_interval (argparse type=int)
    files,         \* the files under the project directory, by suffix
    filepath,      \* simulate's filepath ("-" when not set)
    text,          \* human_type's text (the snippet picked for the session)
    i,             \* human_type's index i, 1-based (Python's i + 1)
    base_delay,    \* human_type's base_delay, a double
    actions,       \* what the session has issued so far: input actions and sleeps
    slept,         \* the factor of base_delay, in tenths, of the time.sleep just made
                   \* by human_type (before the 0.01 s floor); 0 after any other step
    wait,          \* simulate's wait, whole seconds
    out,           \* how the process ended: the line it printed, or the uncaught exception
    at,            \* the position at which the exception that ended the run was raised
    elapsed        \* the sum of the sleeps human_type has made since it was entered,
                   \* in ticks of 1 / (100 wpm) s; -1 in the runs that do not time it

vars == <<pc, wpm, typo_rate, max_interval, files, filepath, text, i,
          base_delay, actions, slept, wait, out, at, elapsed>>

(***************************************************************************)
(* Bounds of the model.                                                    *)
(***************************************************************************)
MaxLen == 2      \* longest snippet typed
RateDen == 2     \* typo_rate and random.random() are multiples of 1/RateDen
MaxWpm == 120    \* largest wpm the timing derivation is checked for

(***************************************************************************)
(* IEEE-754 binary64 values, as far as human_type needs them: a sign s, a  *)
(* 53-bit significand hi * 2^27 + lo (two limbs, so that TLC's 32-bit      *)
(* integers hold every intermediate) and a binary exponent e; the value is *)
(* s * (hi * 2^27 + lo) * 2^e.  Zero has hi = lo = 0.  The exponent range  *)
(* of binary64 is never left by the quotients of small integers used here. *)
(***************************************************************************)
Limb == 2^27
TopBit == 2^25      \* a normalised hi limb lies in [2^25, 2^26)

LimbGeq(x, y) == x[1] > y[1] \/ (x[1] = y[1] /\ x[2] >= y[2])

LimbSub(x, y) ==
    IF x[2] >= y[2] THEN <<x[1] - y[1], x[2] - y[2]>>
    ELSE <<x[1] - y[1] - 1, x[2] + Limb - y[2]>>

LimbDbl(x) == <<2 * x[1] + (2 * x[2]) \div Limb, (2 * x[2]) % Limb>>

LimbInc(x) == IF x[2] + 1 = Limb THEN <<x[1] + 1, 0>> ELSE <<x[1], x[2] + 1>>

RECURSIVE Normalise(_, _)
\* shift a non-zero significand left until its top bit is bit 52
Normalise(m, e) ==
    IF m[1] >= TopBit THEN [m |-> m, e |-> e]
    ELSE Normalise(LimbDbl(m), e - 1)

\* float(n) for an int n with |n| < 2^27
FromInt(n) ==
    IF n = 0 THEN [s |-> 1, m |-> <<0, 0>>, e |-> 0]
    ELSE LET a == IF n < 0 THEN -n ELSE n
             r == Normalise(<<0, a>>, 0)
         IN  [s |-> IF n < 0 THEN -1 ELSE 1, m |-> r.m, e |-> r.e]

IsZero(x) == x.m = <<0, 0>>

RECURSIVE DivBits(_, _, _, _)
\* long division: n more quotient bits of r / d, with r < 2 * d; the result's r
\* is twice the remainder.  (The test on r2 and q2 only makes TLC evaluate them
\* before it descends.)
DivBits(r, d, q, n) ==
    IF n = 0 THEN [q |-> q, r |-> r]
    ELSE LET ge == LimbGeq(r, d)
             r2 == IF ge THEN LimbDbl(LimbSub(r, d)) ELSE LimbDbl(r)
             q2 == IF ge THEN LimbInc(LimbDbl(q)) ELSE LimbDbl(q)
         IN  IF r2[1] >= 0 /\ q2[1] >= 0
             THEN DivBits(r2, d, q2, n - 1)
             ELSE [q |-> q2, r |-> r2]

\* x / y, y non-zero, rounded to nearest, ties to even
FDiv(x, y) ==
    IF IsZero(x) THEN [s |-> x.s * y.s, m |-> <<0, 0>>, e |-> 0]
    ELSE LET pre == IF LimbGeq(x.m, y.m) THEN 0 ELSE 1
             r0  == IF pre = 0 THEN x.m ELSE LimbDbl(x.m)
             d   == DivBits(r0, y.m, <<0, 0>>, 53)
             \* d.r is twice the remainder left after the 53rd bit
             up  == \/ (LimbGeq(d.r, y.m) /\ d.r # y.m)
                    \/ (d.r = y.m /\ d.q[2] % 2 = 1)
             q   == IF up THEN LimbInc(d.q) ELSE d.q
             e   == x.e - y.e - 52 - pre
         IN  IF q[1] >= 2 * TopBit
             THEN [s |-> x.s * y.s, m |-> <<TopBit, 0>>, e |-> e + 1]
             ELSE [s |-> x.s * y.s, m |-> q, e |-> e]

IsNegative(x) == x.s = -1 /\ ~IsZero(x)

(***************************************************************************)
(* Data of the program.                                                    *)
(***************************************************************************)
\* the characters snippets are made of in the model: a letter that is also a
\* possible wrong letter, a second letter, two structural characters, newline,
\* tab and a character with no special handling
Chars == {"a", "b", ".", "(", "\n", "\t", "1"}

RECURSIVE SeqsOver(_, _)
SeqsOver(S, n) ==
    IF n = 0 THEN {<<>>}
    ELSE {Append(t, c) : t \in SeqsOver(S, n - 1), c \in S}

\* the snippet pools hold opaque text: every text of 1..MaxLen characters
Snippets == UNION {SeqsOver(Chars, n) : n \in 1..MaxLen}
PYTHON_SNIPPETS == Snippets
BASH_SNIPPETS == Snippets
GROOVY_SNIPPETS == Snippets

\* a file of the project is represented by its suffix, all that the program
\* reads of a path
PROJECT_FILES == {".py", ".sh", "", ".groovy"}

SNIPPET_MAP ==
    [ext \in {".py", ".sh", ".groovy", ""} |->
        CASE ext = ".py" -> PYTHON_SNIPPETS
          [] ext = ".sh" -> BASH_SNIPPETS
          [] OTHER -> GROOVY_SNIPPETS]

\* the command lines the model starts from
WpmValues == {-60, 0, 60}
IntervalValues == {2, 15, 16}
RateValues == 0..RateDen

\* random.random(): [0, 1), as numerators over RateDen
RandomDraws == 0..(RateDen - 1)

Lowercase == {"a", "b", "c", "d", "e", "f", "g", "h", "i", "j", "k", "l", "m",
              "n", "o", "p", "q", "r", "s", "t", "u", "v", "w", "x", "y", "z"}
Uppercase == {"A", "B", "C", "D", "E", "F", "G", "H", "I", "J", "K", "L", "M",
              "N", "O", "P", "Q", "R", "S", "T", "U", "V", "W", "X", "Y", "Z"}

\* str.isalpha() on the characters of the model (ASCII)
IsAlpha(c) == c \in Lowercase \cup Uppercase

\* random.choice("abcdefghijklmnopqrstuvwxyz"): the draws the model follows,
\* one that may equal the character being typed and one that never does
WrongLetters == {"a", "q"}

\* the characters human_type pauses at
Structural == {".", ":", "(", ")"}

\* one entry of the session's record: kind k, character, key name or kind of
\* sleep c, and the displacement m of a pointer move
Act(k, c, m) == [k |-> k, c |-> c, m |-> m]
WriteChar(c) == Act("W", c, 0)
\* a variant that presses the forward-delete key
BackspaceAsDelete == Act("Del", "", 0)
Backspace == Act("BS", "", 0)
\* a variant that has no special case for newline and writes it as a literal
PressEnterAsLiteral == Act("W", "\n", 0)

PressEnter == Act("Enter", "", 0)
\* a variant that writes a space instead of pressing the Tab key
PressTabAsSpace == Act("W", " ", 0)
PressTab == Act("Tab", "", 0)
Hotkey(name) == Act("Hotkey", name, 0)
\* a variant that moves the pointer one pixel to the right whatever it is given
MoveRelForward(dx) == Act("Move", "", 1)
MoveRel(dx) == Act("Move", "", dx)
Pause(kind) == Act("P", kind, 0)

\* random.uniform(lo, hi), in tenths: the two ends of the range
Uniform(lo, hi) == {lo, hi}

\* random.gauss(0, 1) in whole standard deviations: far below, at and far
\* above the mean
GaussDraws == {-4, 0, 4}

FailSafeMsg == "Fail-safe triggered (mouse top-left). Stopped."
UserMsg == "Stopped by user."
UsageMsg == "error: --max-interval cannot exceed 15 seconds."

(***************************************************************************)
(* The pure parts of the code.                                             *)
(***************************************************************************)
\* Durations are counted in ticks of 1 / (100 wpm) s, for wpm > 0:
\* base_delay = 60 / (5 wpm) s is 1200 ticks (its rounding to a double, a
\* relative error below 2^-52, is dropped), and 0.01 s is wpm ticks.
BaseTicks == 1200

\* the 0.01 of max(0.01, ...)
FloorTicks(w) == w

\* base_delay * m / 10, for a factor m in tenths
UniformTicks(m) == (BaseTicks * m) \div 10

\* a variant without the floor: base_delay + jitter
CharTicksNoFloor(w, m) == UniformTicks(m)

\* max(0.01, base_delay + jitter), with base_delay + jitter = base_delay * m / 10
CharTicks(w, m) ==
    IF UniformTicks(m) > FloorTicks(w) THEN UniformTicks(m) ELSE FloorTicks(w)

\* a variant that forgets the five characters per word
CharsPerSecNoFive(w) == FDiv(FromInt(w), FromInt(60))

\* a variant that divides by 6 instead of 60
CharsPerSecTenfold(w) == FDiv(FromInt(w * 5), FromInt(6))

\* human_type: chars_per_sec = (wpm * 5) / 60
chars_per_sec(w) == FDiv(FromInt(w * 5), FromInt(60))

\* human_type: base_delay = 1.0 / chars_per_sec, for wpm # 0
BaseDelay(w) == FDiv(FromInt(1), chars_per_sec(w))

\* a variant that never advances past the first character
CharAtFirst(t, n) == t[1]

\* text[i], with the model's 1-based index
CharAt(t, n) == t[n]

\* a variant that compares with <=
TypoFiresAtOrBelow(c, r, rate) == IsAlpha(c) /\ r <= rate

\* a variant whose comparison is off by one step of the random draw
TypoFiresStrictBelow(c, r, rate) == IsAlpha(c) /\ r + 1 < rate

\* human_type: char.isalpha() and random.random() < typo_rate
TypoFires(c, r, rate) == IsAlpha(c) /\ r < rate

\* pick_snippet: SNIPPET_MAP.get(ext, PYTHON_SNIPPETS)
pick_snippet(ext) ==
    IF ext \in DOMAIN SNIPPET_MAP THEN SNIPPET_MAP[ext] ELSE PYTHON_SNIPPETS

\* main: the one check of args.max_interval
Rejects(mi) == mi > 15

\* simulate: wait = random.uniform(3, max_interval), whole seconds
WaitDraws(mi) == {3, mi}

\* a variant whose handler sits inside the loop and goes on with a new session
AfterFailSafeRetry == "pick"

\* simulate's handler of pyautogui.FailSafeException prints and falls out of
\* the function: where the run is afterwards
AfterFailSafe == "Stopped"

\* a variant whose try block ends before the sleep between two sessions
TryPcsBeforeWait ==
    {"pick", "open", "focus", "go_end", "type", "loop", "typo", "typo_sleep",
     "backspace", "fix_sleep", "branch", "write", "enter_sleep", "tab_sleep",
     "char_sleep", "save", "jiggle", "jiggle_back"}

\* positions inside simulate's try block
TryPcs == {"pick", "open", "focus", "go_end", "type", "loop", "typo",
           "typo_sleep", "backspace", "fix_sleep", "branch", "write",
           "enter_sleep", "tab_sleep", "char_sleep", "save", "jiggle",
           "jiggle_back", "sleep"}

\* positions of main before simulate is entered
MainPcs == {"main", "setup"}

\* positions at which the next statement is a pyautogui call
PyAutoGuiPcs == {"go_end", "typo", "backspace", "branch", "write", "save",
                 "jiggle", "jiggle_back"}

\* the sum of human_type's sleeps after one more of d ticks (not kept in the
\* runs that do not time the sleeps)
Elapse(d) == IF elapsed < 0 THEN elapsed ELSE elapsed + d

(***************************************************************************)
(* Init: the command line has been typed, nothing has run.                 *)
(***************************************************************************)
Init ==
    /\ pc = "main"
    /\ wpm \in WpmValues
    /\ typo_rate \in RateValues
    /\ max_interval \in IntervalValues
    /\ files = {}
    /\ filepath = "-"
    /\ text = <<>>
    /\ i = 0
    /\ base_delay = FromInt(0)
    /\ actions = <<>>
    /\ slept = 0
    /\ wait = 0
    /\ out = ""
    /\ at = ""
    /\ elapsed = -1

\* an exception no handler catches: the process ends with a traceback
Uncaught(exc) ==
    /\ pc' = "Crashed"
    /\ out' = exc
    /\ at' = pc

(***************************************************************************)
(* main                                                                    *)
(***************************************************************************)
\* parse_args and the check of --max-interval
ParseArgs ==
    /\ pc = "main"
    /\ IF Rejects(max_interval)
       THEN /\ pc' = "Exited"
            /\ out' = UsageMsg
            /\ at' = pc
       ELSE /\ pc' = "setup"
            /\ UNCHANGED <<out, at>>
    /\ UNCHANGED <<wpm, typo_rate, max_interval, files, filepath, text, i,
                   base_delay, actions, wait>>
    /\ slept' = 0
    /\ UNCHANGED elapsed

\* check_linux_deps, create_project, open_editor, the 5 s sleep, then simulate
\* is called and prints its banner
Setup ==
    /\ pc = "setup"
    /\ files' = files \cup PROJECT_FILES
    /\ pc' = "pick"
    /\ UNCHANGED <<wpm, typo_rate, max_interval, filepath, text, i, base_delay,
                   actions, wait, out, at>>
    /\ slept' = 0
    /\ UNCHANGED elapsed

(***************************************************************************)
(* simulate                                                                *)
(***************************************************************************)
\* pick_file, pick_snippet and the "Editing ..." line; a new session's record
\* starts here
PickFile ==
    /\ pc = "pick"
    /\ IF files = {}
       THEN /\ Uncaught("IndexError")
            /\ UNCHANGED <<filepath, text, actions>>
       ELSE /\ \E f \in files : \E snip \in pick_snippet(f) :
                  /\ filepath' = f
                  /\ text' = snip
            /\ actions' = <<>>
            /\ pc' = "open"
            /\ UNCHANGED <<out, at>>
    /\ UNCHANGED <<wpm, typo_rate, max_interval, files, i, base_delay, wait>>
    /\ slept' = 0
    /\ UNCHANGED elapsed

\* open_file_in_editor (a missing editor CLI is swallowed) and the 1.2 s sleep;
\* filepath is not read again in this session
OpenFile ==
    /\ pc = "open"
    /\ filepath' = "-"
    /\ pc' = "focus"
    /\ UNCHANGED <<wpm, typo_rate, max_interval, files, text, i, base_delay,
                   actions, wait, out, at>>
    /\ slept' = 0
    /\ UNCHANGED elapsed

\* focus_editor and the 0.8 s sleep: the result is dropped; subprocess.run
\* raises FileNotFoundError when the activation command is not installed
FocusEditor ==
    /\ pc = "focus"
    /\ \E res \in {"True", "False", "FileNotFoundError"} :
          IF res = "FileNotFoundError"
          THEN Uncaught("FileNotFoundError")
          ELSE pc' = "go_end" /\ UNCHANGED <<out, at>>
    /\ UNCHANGED <<wpm, typo_rate, max_interval, files, filepath, text, i,
                   base_delay, actions, wait>>
    /\ slept' = 0
    /\ UNCHANGED elapsed

\* go_to_end: hotkey ctrl/command + end, then 0.3 s
GoToEnd ==
    /\ pc = "go_end"
    /\ actions' = Append(actions, Hotkey("end"))
    /\ pc' = "type"
    /\ UNCHANGED <<wpm, typo_rate, max_interval, files, filepath, text, i,
                   base_delay, wait, out, at>>
    /\ slept' = 0
    /\ UNCHANGED elapsed

(***************************************************************************)
(* human_type                                                              *)
(***************************************************************************)
\* chars_per_sec, base_delay, i = 0
HumanTypeEntry ==
    /\ pc = "type"
    /\ IF wpm = 0
       THEN /\ Uncaught("ZeroDivisionError")
            /\ UNCHANGED <<i, base_delay>>
       ELSE /\ base_delay' = BaseDelay(wpm)
            /\ i' = 1
            /\ pc' = "loop"
            /\ UNCHANGED <<out, at>>
    /\ UNCHANGED <<wpm, typo_rate, max_interval, files, filepath, text,
                   actions, wait>>
    /\ slept' = 0
    /\ elapsed' = Elapse(0 - elapsed)

\* a variant whose loop test is off by one: while i < len(text) - 1
LoopTestStopsEarly ==
    /\ pc = "loop"
    /\ IF i >= Len(text)
       THEN pc' = "save"
       ELSE \E r \in RandomDraws :
               pc' = IF TypoFires(CharAt(text, i), r, typo_rate)
                     THEN "typo" ELSE "branch"
    /\ UNCHANGED <<wpm, typo_rate, max_interval, files, filepath, text, i,
                   base_delay, actions, wait, out, at>>
    /\ slept' = 0
    /\ UNCHANGED elapsed

\* while i < len(text): char = text[i]; the typo test
LoopTest ==
    /\ pc = "loop"
    /\ IF i > Len(text)
       THEN pc' = "save"
       ELSE \E r \in RandomDraws :
               pc' = IF TypoFires(CharAt(text, i), r, typo_rate)
                     THEN "typo" ELSE "branch"
    /\ UNCHANGED <<wpm, typo_rate, max_interval, files, filepath, text, i,
                   base_delay, actions, wait, out, at>>
    /\ slept' = 0
    /\ UNCHANGED elapsed

\* wrong = random.choice(...); pyautogui.write(wrong)
TypoWrite ==
    /\ pc = "typo"
    /\ \E wrong \in WrongLetters : actions' = Append(actions, WriteChar(wrong))
    /\ pc' = "typo_sleep"
    /\ UNCHANGED <<wpm, typo_rate, max_interval, files, filepath, text, i,
                   base_delay, wait, out, at>>
    /\ slept' = 0
    /\ UNCHANGED elapsed

\* time.sleep(base_delay * random.uniform(0.8, 1.5))
TypoSleep ==
    /\ pc = "typo_sleep"
    /\ IF IsNegative(base_delay)
       THEN Uncaught("ValueError") /\ slept' = 0 /\ UNCHANGED <<actions, elapsed>>
       ELSE /\ slept' \in Uniform(8, 15)
            /\ elapsed' = Elapse(UniformTicks(slept'))
            /\ actions' = Append(actions, Pause("typo"))
            /\ pc' = "backspace"
            /\ UNCHANGED <<out, at>>
    /\ UNCHANGED <<wpm, typo_rate, max_interval, files, filepath, text, i,
                   base_delay, wait>>

\* pyautogui.hotkey("backspace")
TypoBackspace ==
    /\ pc = "backspace"
    /\ actions' = Append(actions, Backspace)
    /\ pc' = "fix_sleep"
    /\ UNCHANGED <<wpm, typo_rate, max_interval, files, filepath, text, i,
                   base_delay, wait, out, at>>
    /\ slept' = 0
    /\ UNCHANGED elapsed

\* time.sleep(base_delay * random.uniform(1.0, 2.0))
FixSleep ==
    /\ pc = "fix_sleep"
    /\ IF IsNegative(base_delay)
       THEN Uncaught("ValueError") /\ slept' = 0 /\ UNCHANGED <<actions, elapsed>>
       ELSE /\ slept' \in Uniform(10, 20)
            /\ elapsed' = Elapse(UniformTicks(slept'))
            /\ actions' = Append(actions, Pause("fix"))
            /\ pc' = "branch"
            /\ UNCHANGED <<out, at>>
    /\ UNCHANGED <<wpm, typo_rate, max_interval, files, filepath, text, i,
                   base_delay, wait>>

\* if char in ".:()": time.sleep(base_delay * random.uniform(1.5, 3.0))
StructPause ==
    /\ pc = "branch"
    /\ CharAt(text, i) \in Structural
    /\ IF IsNegative(base_delay)
       THEN Uncaught("ValueError") /\ slept' = 0 /\ UNCHANGED <<actions, elapsed>>
       ELSE /\ slept' \in Uniform(15, 30)
            /\ elapsed' = Elapse(UniformTicks(slept'))
            /\ actions' = Append(actions, Pause("struct"))
            /\ pc' = "write"
            /\ UNCHANGED <<out, at>>
    /\ UNCHANGED <<wpm, typo_rate, max_interval, files, filepath, text, i,
                   base_delay, wait>>

\* elif char == "\n": pyautogui.press("enter")
Enter ==
    /\ pc = "branch"
    /\ CharAt(text, i) \notin Structural
    /\ CharAt(text, i) = "\n"
    /\ actions' = Append(actions, PressEnter)
    /\ pc' = "enter_sleep"
    /\ UNCHANGED <<wpm, typo_rate, max_interval, files, filepath, text, i,
                   base_delay, wait, out, at>>
    /\ slept' = 0
    /\ UNCHANGED elapsed

\* time.sleep(base_delay * random.uniform(2.0, 4.0)); i += 1; continue
EnterSleep ==
    /\ pc = "enter_sleep"
    /\ IF IsNegative(base_delay)
       THEN Uncaught("ValueError") /\ slept' = 0 /\ UNCHANGED <<actions, i, elapsed>>
       ELSE /\ slept' \in Uniform(20, 40)
            /\ elapsed' = Elapse(UniformTicks(slept'))
            /\ actions' = Append(actions, Pause("enter"))
            /\ i' = i + 1
            /\ pc' = "loop"
            /\ UNCHANGED <<out, at>>
    /\ UNCHANGED <<wpm, typo_rate, max_interval, files, filepath, text,
                   base_delay, wait>>

\* elif char == "\t": pyautogui.press("tab")
Tab ==
    /\ pc = "branch"
    /\ CharAt(text, i) \notin Structural
    /\ CharAt(text, i) # "\n"
    /\ CharAt(text, i) = "\t"
    /\ actions' = Append(actions, PressTab)
    /\ pc' = "tab_sleep"
    /\ UNCHANGED <<wpm, typo_rate, max_interval, files, filepath, text, i,
                   base_delay, wait, out, at>>
    /\ slept' = 0
    /\ UNCHANGED elapsed

\* time.sleep(base_delay * random.uniform(0.8, 1.2)); i += 1; continue
TabSleep ==
    /\ pc = "tab_sleep"
    /\ IF IsNegative(base_delay)
       THEN Uncaught("ValueError") /\ slept' = 0 /\ UNCHANGED <<actions, i, elapsed>>
       ELSE /\ slept' \in Uniform(8, 12)
            /\ elapsed' = Elapse(UniformTicks(slept'))
            /\ actions' = Append(actions, Pause("tab"))
            /\ i' = i + 1
            /\ pc' = "loop"
            /\ UNCHANGED <<out, at>>
    /\ UNCHANGED <<wpm, typo_rate, max_interval, files, filepath, text,
                   base_delay, wait>>

\* the statement after the if/elif chain is reached: directly for a character
\* with no special handling, after the pause for a structural one
AtWrite ==
    \/ pc = "write"
    \/ /\ pc = "branch"
       /\ CharAt(text, i) \notin Structural \cup {"\n", "\t"}

\* pyautogui.write(char)
WriteLiteral ==
    /\ AtWrite
    /\ actions' = Append(actions, WriteChar(CharAt(text, i)))
    /\ pc' = "char_sleep"
    /\ UNCHANGED <<wpm, typo_rate, max_interval, files, filepath, text, i,
                   base_delay, wait, out, at>>
    /\ slept' = 0
    /\ UNCHANGED elapsed

\* jitter = random.gauss(0, base_delay * 0.3);
\* time.sleep(max(0.01, base_delay + jitter)); i += 1
\* (the factor of base_delay is 1 + 0.3 z; the floor keeps the sleep positive)
CharSleep ==
    /\ pc = "char_sleep"
    /\ \E z \in GaussDraws : slept' = 10 + 3 * z
    /\ elapsed' = Elapse(CharTicks(wpm, slept'))
    /\ actions' = Append(actions, Pause("char"))
    /\ i' = i + 1
    /\ pc' = "loop"
    /\ UNCHANGED <<wpm, typo_rate, max_interval, files, filepath, text,
                   base_delay, wait, out, at>>

(***************************************************************************)
(* simulate, after human_type has returned                                 *)
(***************************************************************************)
\* save_file, wait = random.uniform(3, max_interval), the "Saved." line
SaveFile ==
    /\ pc = "save"
    /\ actions' = Append(actions, Hotkey("s"))
    /\ wait' \in WaitDraws(max_interval)
    /\ pc' = "jiggle"
    /\ UNCHANGED <<wpm, typo_rate, max_interval, files, filepath, text, i,
                   base_delay, out, at>>
    /\ slept' = 0
    /\ UNCHANGED elapsed

\* pyautogui.moveRel(1, 0)
Jiggle ==
    /\ pc = "jiggle"
    /\ actions' = Append(actions, MoveRel(1))
    /\ pc' = "jiggle_back"
    /\ UNCHANGED <<wpm, typo_rate, max_interval, files, filepath, text, i,
                   base_delay, wait, out, at>>
    /\ slept' = 0
    /\ UNCHANGED elapsed

\* pyautogui.moveRel(-1, 0)
JiggleBack ==
    /\ pc = "jiggle_back"
    /\ actions' = Append(actions, MoveRel(-1))
    /\ pc' = "sleep"
    /\ UNCHANGED <<wpm, typo_rate, max_interval, files, filepath, text, i,
                   base_delay, wait, out, at>>
    /\ slept' = 0
    /\ UNCHANGED elapsed

\* time.sleep(wait), then the next iteration of while True (wait is positive
\* for every command line of the model); nothing of the session that ends is
\* read again (snippet, wait and human_type's locals are assigned before they
\* are next used), so the model forgets it here
SleepWait ==
    /\ pc = "sleep"
    /\ pc' = "pick"
    /\ text' = <<>>
    /\ i' = 0
    /\ base_delay' = FromInt(0)
    /\ actions' = <<>>
    /\ wait' = 0
    /\ slept' = 0
    /\ UNCHANGED elapsed
    /\ UNCHANGED <<wpm, typo_rate, max_interval, files, filepath, out, at>>

\* the project directory is emptied from outside while the program sleeps
\* (the listing is read again by every pick_file)
ProjectEmptied ==
    /\ pc = "sleep"
    /\ files # {}
    /\ files' = {}
    /\ UNCHANGED <<pc, wpm, typo_rate, max_interval, filepath, text, i,
                   base_delay, actions, wait, out, at>>
    /\ slept' = 0
    /\ UNCHANGED elapsed

\* a pyautogui call finds the pointer in the corner and raises
\* FailSafeException before acting; simulate's handler prints and returns
FailSafe ==
    /\ \/ pc \in PyAutoGuiPcs \ {"branch"}
       \/ pc = "branch" /\ CharAt(text, i) \notin Structural
    /\ pc' = AfterFailSafe
    /\ out' = FailSafeMsg
    /\ at' = pc
    /\ UNCHANGED <<wpm, typo_rate, max_interval, files, filepath, text, i,
                   base_delay, actions, wait>>
    /\ slept' = 0
    /\ UNCHANGED elapsed

\* Ctrl+C inside simulate's try block: the handler prints and returns
KeyboardInterrupt ==
    /\ pc \in TryPcs
    /\ pc' = "Stopped"
    /\ out' = UserMsg
    /\ at' = pc
    /\ UNCHANGED <<wpm, typo_rate, max_interval, files, filepath, text, i,
                   base_delay, actions, wait>>
    /\ slept' = 0
    /\ UNCHANGED elapsed

\* Ctrl+C before simulate is entered: nothing catches it
EarlyInterrupt ==
    /\ pc \in MainPcs
    /\ Uncaught("KeyboardInterrupt")
    /\ UNCHANGED <<wpm, typo_rate, max_interval, files, filepath, text, i,
                   base_delay, actions, wait>>
    /\ slept' = 0
    /\ UNCHANGED elapsed

Next ==
    \/ ParseArgs \/ Setup \/ PickFile \/ OpenFile \/ FocusEditor \/ GoToEnd
    \/ HumanTypeEntry \/ LoopTest \/ TypoWrite \/ TypoSleep \/ TypoBackspace
    \/ FixSleep \/ StructPause \/ Enter \/ EnterSleep \/ Tab \/ TabSleep
    \/ WriteLiteral \/ CharSleep \/ SaveFile \/ Jiggle \/ JiggleBack
    \/ SleepWait \/ ProjectEmptied \/ FailSafe \/ KeyboardInterrupt
    \/ EarlyInterrupt

Spec == Init /\ [][Next]_vars

(***************************************************************************)
(* The timing derivation alone: human_type entered with each wpm in        *)
(* 1..MaxWpm.                                                              *)
(***************************************************************************)
InitTiming ==
    /\ pc = "type"
    /\ wpm \in 1..MaxWpm
    /\ typo_rate = 0
    /\ max_interval = 15
    /\ files = PROJECT_FILES
    /\ filepath = "-"
    /\ text = <<"a">>
    /\ i = 0
    /\ base_delay = FromInt(0)
    /\ actions = <<Hotkey("end")>>
    /\ slept = 0
    /\ wait = 0
    /\ out = ""
    /\ at = ""
    /\ elapsed = -1

SpecTiming == InitTiming /\ [][HumanTypeEntry]_vars

(***************************************************************************)
(* human_type alone, with its sleeps timed: every text over DurationChars, *)
(* at an ordinary pace and at paces around 960 wpm, where 0.8 base_delay   *)
(* is 0.01 s.                                                              *)
(***************************************************************************)
DurationChars == {"a", ".", "\n", "\t"}
DurationWpm == {60, 960, 961}

InitDuration ==
    /\ pc = "type"
    /\ wpm \in DurationWpm
    /\ typo_rate \in {0, RateDen}
    /\ max_interval = 15
    /\ files = PROJECT_FILES
    /\ filepath = "-"
    /\ text \in UNION {SeqsOver(DurationChars, n) : n \in 1..MaxLen}
    /\ i = 0
    /\ base_delay = FromInt(0)
    /\ actions = <<Hotkey("end")>>
    /\ slept = 0
    /\ wait = 0
    /\ out = ""
    /\ at = ""
    /\ elapsed = 0

NextDuration ==
    \/ HumanTypeEntry \/ LoopTest \/ TypoWrite \/ TypoSleep \/ TypoBackspace
    \/ FixSleep \/ StructPause \/ Enter \/ EnterSleep \/ Tab \/ TabSleep
    \/ WriteLiteral \/ CharSleep

SpecDuration == InitDuration /\ [][NextDuration]_vars

(***************************************************************************)
(* Reading the session's record.                                           *)
(***************************************************************************)
\* the key actions human_type issues, in order, without the sleeps
Keys == SelectSeq(actions, LAMBDA a : a.k \in {"W", "BS", "Enter", "Tab"})

RECURSIVE StripTypos(_)
\* a key sequence without its correction pairs (a write directly followed by
\* a backspace, and that backspace)
StripTypos(s) ==
    IF Len(s) = 0 THEN <<>>
    ELSE IF Len(s) >= 2 /\ s[1].k = "W" /\ s[2].k = "BS"
         THEN StripTypos(SubSeq(s, 3, Len(s)))
         ELSE <<s[1]>> \o StripTypos(Tail(s))

\* every backspace closes a pair write + backspace, and the pair is directly
\* followed by a write that is not itself the start of a pair
PairsPrecedeLiteral ==
    \A j \in 1..Len(Keys) :
        Keys[j].k = "BS" =>
            /\ j >= 2 /\ Keys[j - 1].k = "W"
            /\ j + 1 <= Len(Keys) /\ Keys[j + 1].k = "W"
            /\ (j + 2 <= Len(Keys) => Keys[j + 2].k # "BS")

\* the run was started with the defaults of --wpm and --max-interval
DefaultPace == wpm = 60 /\ max_interval = 15

AllAlpha(t) == \A j \in 1..Len(t) : IsAlpha(t[j])

NoBackspace == \A j \in 1..Len(actions) : actions[j].k # "BS"

\* the double nearest to 0.2: 0x3FC999999999999A
Double02 == [s |-> 1, m |-> <<53687091, 26843546>>, e |-> -55]

\* 60 / (wpm * 5), one correctly rounded division
ExactDelay(w) == FDiv(FromInt(60), FromInt(w * 5))

\* the next double above a positive double
Succ(x) ==
    IF x.m = <<2 * TopBit - 1, Limb - 1>>
    THEN [s |-> x.s, m |-> <<TopBit, 0>>, e |-> x.e + 1]
    ELSE [s |-> x.s, m |-> LimbInc(x.m), e |-> x.e]

\* two positive doubles at most one unit in the last place apart
WithinOneUlp(x, y) == x = y \/ y = Succ(x) \/ x = Succ(y)

(***************************************************************************)
(* C1                                                                      *)
(***************************************************************************)
\* C1 as stated: when human_type has returned, the keys it issued, without
\* the correction pairs, are exactly one literal write per character of the
\* text, in order, and every correction pair directly precedes a literal write
\* (read on the runs with the default --wpm and --max-interval).
C1_EveryCharWritten ==
    (pc = "save" /\ DefaultPace) =>
        /\ StripTypos(Keys) = [j \in 1..Len(text) |-> WriteChar(text[j])]
        /\ PairsPrecedeLiteral

\* what human_type issues for one character of the text
KeyFor(c) ==
    IF c = "\n" THEN PressEnter ELSE IF c = "\t" THEN PressTab ELSE WriteChar(c)

\* C1 amended: when human_type has returned, the keys it issued, without the
\* correction pairs, are in the order of the text one literal write per
\* character other than newline and tab, one Enter press per newline and one
\* Tab press per tab; every correction pair directly precedes a literal write.
C1_EveryCharKeyed ==
    pc = "save" =>
        /\ StripTypos(Keys) = [j \in 1..Len(text) |-> KeyFor(text[j])]
        /\ PairsPrecedeLiteral

\* a finished text with a newline in it and a corrected typo
C1_Witness ==
    /\ pc = "save"
    /\ wpm = 60
    /\ \E j \in 1..Len(text) : text[j] = "\n"
    /\ ~NoBackspace

(***************************************************************************)
(* C2                                                                      *)
(***************************************************************************)
\* C2: the step in which a pyautogui call raises the fail-safe exception ends
\* in Stopped without adding to the session's record, and from Stopped the
\* position and the record never change again (no key, save or pointer move,
\* no new session).
C2_AbortStops ==
    [][/\ (out' = FailSafeMsg /\ out # FailSafeMsg)
            => (pc' = "Stopped" /\ actions' = actions)
       /\ pc = "Stopped" => (pc' = "Stopped" /\ actions' = actions)]_vars

\* the write of the second character of a text raised the fail-safe exception
C2_Witness ==
    /\ pc = "Stopped"
    /\ wpm = 60
    /\ out = FailSafeMsg
    /\ at \in {"write", "branch"}
    /\ i = 2
    /\ Len(text) = 2

(***************************************************************************)
(* C3                                                                      *)
(***************************************************************************)
\* C3: an empty project never ends the run: the process is never ended by the
\* error pick_file raises on an empty listing (read on the runs with the
\* default --wpm and --max-interval).
C3_EmptyCorpusRetried ==
    DefaultPace => ~(pc = "Crashed" /\ out = "IndexError")

(***************************************************************************)
(* C4                                                                      *)
(***************************************************************************)
\* C4: no session gets as far as having selected its target with
\* max_interval outside [3, 15] (read on the runs with the default --wpm).
C4_IntervalChecked ==
    (pc \in TryPcs \ {"pick"} /\ wpm = 60) => (3 <= max_interval /\ max_interval <= 15)

(***************************************************************************)
(* C5                                                                      *)
(***************************************************************************)
\* C5: with typo_rate = 0 and an alphabetic text, the session's record never
\* holds a backspace, human_type is never inside a typo, and every write in
\* the record is the literal write of the text's character at its place.
C5_NoTypoAtRateZero ==
    (typo_rate = 0 /\ AllAlpha(text)) =>
        /\ NoBackspace
        /\ pc \notin {"typo", "typo_sleep", "backspace", "fix_sleep"}
        /\ Len(Keys) <= Len(text)
        /\ \A j \in 1..Len(Keys) : Keys[j] = WriteChar(text[j])

\* an alphabetic text of two or more characters typed to its end at rate 0
C5_Witness ==
    /\ typo_rate = 0
    /\ wpm = 60
    /\ pc = "save"
    /\ Len(text) >= 2
    /\ AllAlpha(text)
    /\ Len(Keys) = Len(text)

(***************************************************************************)
(* C6                                                                      *)
(***************************************************************************)
\* C6: with typo_rate = 1 and an alphabetic text, when human_type has returned
\* the keys are, for each character in turn, one wrong lowercase letter, one
\* backspace and the literal write: len(text) backspaces in all.
C6_TypoEveryLetter ==
    (typo_rate = RateDen /\ AllAlpha(text) /\ pc = "save") =>
        /\ Len(Keys) = 3 * Len(text)
        /\ \A j \in 1..Len(text) :
              /\ Keys[3 * j - 2].k = "W" /\ Keys[3 * j - 2].c \in Lowercase
              /\ Keys[3 * j - 1] = Backspace
              /\ Keys[3 * j] = WriteChar(text[j])
        /\ Cardinality({j \in 1..Len(Keys) : Keys[j].k = "BS"}) = Len(text)

\* an alphabetic text of two or more characters typed to its end at rate 1
C6_Witness ==
    /\ typo_rate = RateDen
    /\ wpm = 60
    /\ pc = "save"
    /\ Len(text) >= 2
    /\ AllAlpha(text)
    /\ ~NoBackspace

(***************************************************************************)
(* C7                                                                      *)
(***************************************************************************)
\* C7: what follows the write of a structural character in the session's
\* record is the structural pause (read on the runs with the default --wpm
\* and --max-interval).
C7_PauseFollowsChar ==
    DefaultPace => \A j \in 1..Len(actions) :
        (actions[j].k = "W" /\ actions[j].c \in Structural /\ j < Len(actions))
            => actions[j + 1] = Pause("struct")

(***************************************************************************)
(* C8                                                                      *)
(***************************************************************************)
\* C8 as stated: wpm 60, text "ab", typo_rate 0: the keys are write a, write b
\* and base_delay is 1.0 (read on the runs with the default --max-interval).
C8_DelayOne ==
    (DefaultPace /\ typo_rate = 0 /\ text = <<"a", "b">> /\ pc = "save") =>
        /\ Keys = <<WriteChar("a"), WriteChar("b")>>
        /\ base_delay = FromInt(1)

\* C8 amended: wpm 60, text "ab", typo_rate 0: the keys are write a, write b,
\* with no backspace, and base_delay is 0.2.
C8_DelayFifth ==
    (wpm = 60 /\ typo_rate = 0 /\ text = <<"a", "b">> /\ pc = "save") =>
        /\ Keys = <<WriteChar("a"), WriteChar("b")>>
        /\ NoBackspace
        /\ base_delay = Double02

\* "ab" typed to its end at 60 wpm and rate 0
C8_Witness ==
    wpm = 60 /\ typo_rate = 0 /\ text = <<"a", "b">> /\ pc = "save"

(***************************************************************************)
(* C9 (under SpecTiming)                                                   *)
(***************************************************************************)
\* C9 as stated: for every wpm > 0 the base_delay human_type computes is the
\* double 60 / (wpm * 5).
C9_DelayExact == pc = "loop" => base_delay = ExactDelay(wpm)

\* C9 amended: for every wpm > 0 the base_delay human_type computes is
\* positive and at most one unit in the last place away from the double
\* 60 / (wpm * 5) (equal to it for wpm = 60).
C9_DelayWithinUlp ==
    pc = "loop" =>
        /\ ~IsZero(base_delay) /\ base_delay.s = 1
        /\ WithinOneUlp(base_delay, ExactDelay(wpm))
        /\ (wpm = 60 => base_delay = ExactDelay(wpm))

\* a wpm for which the two roundings of the code miss the exact quotient
C9_Witness == pc = "loop" /\ base_delay # ExactDelay(wpm)

(***************************************************************************)
(* C10                                                                     *)
(***************************************************************************)
\* C10: with wpm <= 0 the run fails at configuration: no input action is ever
\* issued, and no exception is raised from inside a session (read on the runs
\* with the default --max-interval).
C10_RejectedAtConfig ==
    (wpm <= 0 /\ max_interval = 15) =>
        /\ actions = <<>>
        /\ pc = "Crashed" => at \in MainPcs

(***************************************************************************)
(* C11                                                                     *)
(***************************************************************************)
\* how often character c occurs in text t
Occurrences(t, c) == Cardinality({j \in 1..Len(t) : t[j] = c})

\* how many records of kind k the session's record holds
Issued(k) == Cardinality({j \in 1..Len(actions) : actions[j].k = k})

\* C11: when human_type has returned from a text ending in a newline, the
\* last key it issued is the Enter press and the last record is the sleep
\* after it; that sleep, when just made, is 2 to 4 times base_delay; a
\* finished text has one Enter press per newline and one Tab press per tab,
\* and no newline or tab is ever written as a literal.
C11_EnterLast ==
    /\ (pc = "save" /\ text[Len(text)] = "\n") =>
          /\ Keys[Len(Keys)].k = "Enter"
          /\ actions[Len(actions)] = Pause("enter")
          /\ actions[Len(actions) - 1].k = "Enter"
    /\ (pc = "loop" /\ actions[Len(actions)] = Pause("enter")) =>
          (20 <= slept /\ slept <= 40)
    /\ pc = "save" =>
          /\ Issued("Enter") = Occurrences(text, "\n")
          /\ Issued("Tab") = Occurrences(text, "\t")
    /\ \A j \in 1..Len(actions) :
          actions[j].k = "W" => actions[j].c \notin {"\n", "\t"}

\* "a\n" typed to its end
C11_Witness ==
    /\ pc = "save"
    /\ wpm = 60
    /\ text = <<"a", "\n">>

(***************************************************************************)
(* C12                                                                     *)
(***************************************************************************)
\* C12: the run is never ended by the focus step (read on the runs with the
\* default --wpm and --max-interval).
C12_FocusNeverFatal == DefaultPace => ~(pc = "Crashed" /\ at = "focus")

(***************************************************************************)
(* C13                                                                     *)
(***************************************************************************)
\* the scheduler's states: selecting, focusing, typing, saving, waiting
Selecting == {"pick"}
Focusing == {"open", "focus"}
Typing == {"go_end", "type", "loop", "typo", "typo_sleep", "backspace",
           "fix_sleep", "branch", "write", "enter_sleep", "tab_sleep",
           "char_sleep"}
Saving == {"save"}
Waiting == {"jiggle", "jiggle_back", "sleep"}
SchedulerPcs == Selecting \cup Focusing \cup Typing \cup Saving \cup Waiting

\* C13: in every scheduler state a user interrupt can be taken, and taking it
\* leads to Stopped with the one line "Stopped by user." printed and nothing
\* added to the session's record; in Stopped a one-line cause has been
\* printed and no step is possible any more.
C13_CancelStops ==
    /\ pc \in SchedulerPcs =>
          ENABLED (/\ KeyboardInterrupt
                   /\ pc' = "Stopped"
                   /\ out' = UserMsg
                   /\ actions' = actions)
    /\ pc = "Stopped" => (out \in {UserMsg, FailSafeMsg} /\ ~ENABLED Next)

\* the run was cancelled while waiting between two sessions
C13_Witness ==
    /\ pc = "Stopped"
    /\ out = UserMsg
    /\ at = "sleep"
    /\ wpm = 60

(***************************************************************************)
(* C14                                                                     *)
(***************************************************************************)
IdleSignal == {"jiggle", "jiggle_back"}

\* the scheduler's step a position belongs to, in the order of the session;
\* 0 outside the loop
Stage(p) ==
    IF p \in Selecting THEN 1
    ELSE IF p \in Focusing THEN 2
    ELSE IF p \in Typing THEN 3
    ELSE IF p \in Saving THEN 4
    ELSE IF p \in IdleSignal THEN 5
    ELSE IF p = "sleep" THEN 6
    ELSE 0

\* the positions of the save signal in the session's record
Saves == {j \in 1..Len(actions) : actions[j] = Hotkey("s")}

\* the session's record: at most one save signal, issued by the time the idle
\* signal starts; before it the keys of the whole text, after it nothing but
\* pointer moves
SessionShape ==
    /\ Cardinality(Saves) <= 1
    /\ Stage(pc) \in {5, 6} => Cardinality(Saves) = 1
    /\ Stage(pc) \in 1..4 => Saves = {}
    /\ \A j \in Saves :
          /\ StripTypos(Keys) = [n \in 1..Len(text) |-> KeyFor(text[n])]
          /\ \A n \in 1..Len(actions) :
                /\ (n < j => actions[n].k # "Move")
                /\ (n > j => actions[n].k = "Move")

\* C14: inside the loop every step stays in the scheduler's current step or
\* moves to the next one of select, focus, type, save, idle signal, wait, and
\* only the end of the wait leads back to the selection; the save signal is
\* issued once per session, after the keys of the whole text and before the
\* idle signal.
C14_SessionOrder ==
    /\ []SessionShape
    /\ [][(Stage(pc) > 0 /\ Stage(pc') > 0) =>
             \/ Stage(pc') \in {Stage(pc), Stage(pc) + 1}
             \/ pc = "sleep" /\ pc' = "pick"]_vars

\* a session that typed two characters, corrected one typo, saved and waits
C14_Witness ==
    /\ pc = "sleep"
    /\ wpm = 60
    /\ Len(text) = 2
    /\ Issued("BS") = 1
    /\ Cardinality(Saves) = 1

(***************************************************************************)
(* C15                                                                     *)
(***************************************************************************)
\* C15: once a session has saved, its wait is at least 3 seconds and at most
\* max_interval seconds (read on the runs with the default --wpm).
C15_WaitInRange ==
    (Stage(pc) \in {5, 6} /\ wpm = 60) => (3 <= wait /\ wait <= max_interval)

(***************************************************************************)
(* C16                                                                     *)
(***************************************************************************)
\* the pointer moves of the session's record, in order
Moves == SelectSeq(actions, LAMBDA a : a.k = "Move")

RECURSIVE NetDisplacement(_)
\* the sum of the horizontal displacements of a sequence of pointer moves
NetDisplacement(s) ==
    IF Len(s) = 0 THEN 0 ELSE s[1].m + NetDisplacement(Tail(s))

\* C16: no pointer move is issued before the save; when the session waits,
\* the record ends with the save signal, a pointer move by a nonzero distance
\* and the move back by the same distance, these are its only pointer moves,
\* and their net displacement is zero.
C16_IdleSignalOnce ==
    /\ (Stage(pc) \in 1..4 \/ pc = "jiggle") => Moves = <<>>
    /\ pc = "jiggle_back" =>
          /\ Len(Moves) = 1
          /\ actions[Len(actions)].k = "Move"
          /\ actions[Len(actions) - 1] = Hotkey("s")
    /\ pc = "sleep" =>
          /\ Len(Moves) = 2
          /\ Len(actions) >= 3
          /\ actions[Len(actions) - 2] = Hotkey("s")
          /\ actions[Len(actions) - 1].k = "Move"
          /\ actions[Len(actions)].k = "Move"
          /\ actions[Len(actions) - 1].m # 0
          /\ actions[Len(actions)].m = 0 - actions[Len(actions) - 1].m
          /\ NetDisplacement(Moves) = 0

\* the pointer has been moved and moved back, the session waits
C16_Witness ==
    /\ pc = "sleep"
    /\ wpm = 60
    /\ Len(Moves) = 2
    /\ Moves[1].m = 1

(***************************************************************************)
(* C17                                                                     *)
(***************************************************************************)
\* where the run is, or was when it ended
Position == IF pc \in {"Stopped", "Crashed"} THEN at ELSE pc

\* record j is the write of a wrong letter: the write the typo pause follows,
\* or the last record while that pause has not been taken
WrongAt(j) ==
    /\ actions[j].k = "W"
    /\ \/ j < Len(actions) /\ actions[j + 1] = Pause("typo")
       \/ j = Len(actions) /\ Position = "typo_sleep"

\* the wrong letter of record j is followed by its pause and then a backspace
Corrected(j) == j + 2 <= Len(actions) /\ actions[j + 2].k = "BS"

\* no key action after record j
LastKey(j) ==
    \A n \in (j + 1)..Len(actions) :
        actions[n].k \notin {"W", "BS", "Del", "Enter", "Tab", "Hotkey"}

\* C17 as stated: when the run has reached Stopped, every wrong letter written
\* has been followed by its backspace (read on the runs with the default --wpm
\* and --max-interval).
C17_TypoAlwaysCorrected ==
    (pc = "Stopped" /\ DefaultPace) =>
        \A j \in 1..Len(actions) : WrongAt(j) => Corrected(j)

\* C17 amended: every wrong letter written is followed by its backspace before
\* any other key action, except the one wrong letter of a run that is, or was
\* when it ended, between the write of that letter and its backspace (in the
\* pause after the wrong letter or at the backspace call): a cancellation or
\* abort arriving there is honoured at once and leaves that letter in place as
\* the last key action.
C17_TypoCorrectedUnlessCut ==
    \A j \in 1..Len(actions) :
        WrongAt(j) =>
            \/ Corrected(j)
            \/ /\ Position \in {"typo_sleep", "backspace"}
               /\ LastKey(j)

\* a run cancelled in the pause after a backspace that corrected a wrong letter
C17_Witness ==
    /\ pc = "Stopped"
    /\ out = UserMsg
    /\ wpm = 60
    /\ at = "fix_sleep"
    /\ WrongAt(Len(actions) - 2)
    /\ Corrected(Len(actions) - 2)

(***************************************************************************)
(* C18                                                                     *)
(***************************************************************************)
\* C18: the scheduler's loop ends in no other way than by a user interrupt or
\* a fail-safe abort: the process never ends at a position inside the loop
\* with an error of its own (read on the runs with the default --wpm and
\* --max-interval).
C18_OnlyCancelStops ==
    DefaultPace => ~(pc = "Crashed" /\ at \in SchedulerPcs /\ out # UserMsg
                     /\ out # FailSafeMsg)

(***************************************************************************)
(* C19                                                                     *)
(***************************************************************************)
\* the characters of a text that are written literally
Literals(t) == Len(t) - Occurrences(t, "\n") - Occurrences(t, "\t")

\* C19 as stated: when human_type has returned, its sleeps add up to at least
\* 0.01 s per character of the text.
C19_DurationAtLeastFloor ==
    pc = "save" => elapsed >= Len(text) * FloorTicks(wpm)

\* C19 amended: when human_type has returned, its sleeps add up to at least
\* 0.01 s per literally written character, 2 base_delay per newline and
\* 0.8 base_delay per tab; this is at least 0.01 s per character of the text
\* when wpm <= 960 or the text has neither newline nor tab.
C19_DurationAtLeastPerKind ==
    pc = "save" =>
        /\ elapsed >= Literals(text) * FloorTicks(wpm)
                        + Occurrences(text, "\n") * UniformTicks(20)
                        + Occurrences(text, "\t") * UniformTicks(8)
        /\ (wpm <= 960 \/ Literals(text) = Len(text)) =>
              elapsed >= Len(text) * FloorTicks(wpm)

\* at 960 wpm a letter and a tab were typed with the shortest sleeps: 0.01 s
\* each
C19_Witness ==
    /\ pc = "save"
    /\ wpm = 960
    /\ text = <<"a", "\t">>
    /\ elapsed = 2 * FloorTicks(wpm)

(***************************************************************************)
(* C20                                                                     *)
(***************************************************************************)
RECURSIVE Buffer(_)
\* the text a record leaves in an empty buffer: a write appends its
\* character, a backspace deletes the last character, Enter appends a
\* newline, Tab appends a tab; nothing else changes the buffer
Buffer(s) ==
    IF Len(s) = 0 THEN <<>>
    ELSE LET b == Buffer(SubSeq(s, 1, Len(s) - 1))
             a == s[Len(s)]
         IN  IF a.k = "W" THEN Append(b, a.c)
             ELSE IF a.k = "BS"
                  THEN IF Len(b) = 0 THEN b ELSE SubSeq(b, 1, Len(b) - 1)
             ELSE IF a.k = "Enter" THEN Append(b, "\n")
             ELSE IF a.k = "Tab" THEN Append(b, "\t")
             ELSE b

IsPrefix(b, t) == Len(b) <= Len(t) /\ b = SubSeq(t, 1, Len(b))

\* positions inside human_type's loop
HumanTypePcs == {"loop", "typo", "typo_sleep", "backspace", "fix_sleep",
                 "branch", "write", "enter_sleep", "tab_sleep", "char_sleep"}

\* C20: while human_type runs, the buffer holds a prefix of the text,
\* followed by at most one lowercase letter (a wrong letter not yet deleted);
\* when human_type has returned, the buffer holds exactly the text.
C20_BufferTracksText ==
    pc \in HumanTypePcs \cup {"save"} =>
        LET b == Buffer(actions)
        IN  /\ \/ IsPrefix(b, text)
               \/ /\ Len(b) > 0
                  /\ IsPrefix(SubSeq(b, 1, Len(b) - 1), text)
                  /\ b[Len(b)] \in Lowercase
            /\ pc = "save" => b = text

\* a text with a letter and a tab has been typed, with one typo corrected
C20_Witness ==
    /\ pc = "save"
    /\ wpm = 60
    /\ text = <<"a", "\t">>
    /\ Issued("BS") = 1
    /\ Buffer(actions) = text

====
